---- MODULE Spec2Model ----
(***************************************************************************)
(* The content-addressable store of cas/cas.go: the write pipeline         *)
(* (Store.WriteACI), the index writes (Store.WriteIndex), the raw blob     *)
(* write (Store.WriteStream) and the selection engine (Store.GetACI).      *)
(*                                                                         *)
(* Strings are byte sequences (Go strings), bytes are naturals 0..255.     *)
(* An image is a byte sequence <<magic, name id, labels id, payload>>: the *)
(* manifest is parsed out of the bytes, so it is a function of them.       *)
(***************************************************************************)
EXTENDS Integers, Sequences, FiniteSets, TLC

VARIABLES
    blob,      \* stores[blobType]:     key -> bytes
    aciinfo,   \* stores[aciInfoType]:  key -> marshalled ACIInfo
    appindex,  \* stores[appIndexType]: key -> marshalled AppIndex
    index,     \* stores[appIndexType].Index: the keys of appindex, in order
    tmp,       \* <base>/tmp:           temp file id -> bytes written so far
    nextTmp,   \* number of temp files created so far (names are unique)
    clock,     \* wall clock read by time.Now()
    calls,     \* number of WriteACI calls started
    procs,     \* per caller: the position and locals of its WriteACI call
    indexed,   \* history: blob keys for which a call stored both index records
    raw,       \* history: blob keys whose bytes were last put by WriteStream
    got,       \* outcome of the lookup just performed (GetACI), or NoGet
    resolved,  \* outcome of the ResolveKey call just made, or NoResolve
    keyed,     \* a digest, and the outcome of HashToKey on it once it is called
    lastInfo,  \* history: the caller whose aciinfo WriteIndex returned nil last
    iter       \* the KeysPrefix iteration of the ResolveKey call in progress, or NoIter

vars == <<blob, aciinfo, appindex, index, tmp, nextTmp, clock, calls, procs, indexed, raw, got,
          resolved, keyed, lastInfo, iter>>

----------------------------------------------------------------------------
(* Bounds of the model *)

MaxCalls == 2
MaxImage == 3
MaxTime == 2
MaxBulk == 12
MaxSuffix == 2
MaxDamaged == 3

(* Program constants *)

lenHash == 64
BatchSize == 10
PeekSize == 512

hashPrefix == <<115, 104, 97, 53, 49, 50, 45>>
lenHashKey == (lenHash \div 2) * 2
lenKey == Len(hashPrefix) + lenHashKey

----------------------------------------------------------------------------
(* Byte strings *)

Min(a, b) == IF a < b THEN a ELSE b

HasPrefix(s, p) == Len(p) <= Len(s) /\ SubSeq(s, 1, Len(p)) = p

\* func strLess(a, b string) bool { return a < b }: bytewise lexicographic
strLess(a, b) ==
    IF HasPrefix(b, a) THEN Len(a) < Len(b)
    ELSE IF HasPrefix(a, b) THEN FALSE
    ELSE LET d == CHOOSE i \in 1..Min(Len(a), Len(b)) :
                      a[i] # b[i] /\ SubSeq(a, 1, i - 1) = SubSeq(b, 1, i - 1)
         IN  a[d] < b[d]

\* "%x" of one nibble
HexDigit(n) == IF n < 10 THEN 48 + n ELSE 87 + n

\* "%x" of a byte slice: two lowercase hex characters per byte
Hex(bs) ==
    [i \in 1..(2 * Len(bs)) |->
        LET b == bs[(i + 1) \div 2]
        IN  IF i % 2 = 1 THEN HexDigit(b \div 16) ELSE HexDigit(b % 16)]

\* a * b modulo 65521, without leaving 32 bits
MulMod(a, b) == ((((a \div 256) * b) % 65521) * 256 + (a % 256) * b) % 65521

RECURSIVE Pow31(_)
Pow31(n) ==
    IF n = 0 THEN 1
    ELSE IF n % 2 = 0 THEN LET h == Pow31(n \div 2) IN MulMod(h, h)
    ELSE MulMod(31, Pow31(n - 1))

\* d[lo] + 31 * d[lo + 1] + ... + 31^(hi - lo) * d[hi], modulo 65521
RECURSIVE Poly(_, _, _)
Poly(d, lo, hi) ==
    IF lo > hi THEN 0
    ELSE IF lo = hi THEN d[lo] % 65521
    ELSE LET mid == (lo + hi) \div 2
         IN  (Poly(d, lo, mid) + MulMod(Pow31(mid - lo + 1), Poly(d, mid + 1, hi))) % 65521

\* the digest's state after the bytes d: Mix(<<>>) = 1 and
\* Mix(<<b>> \o d) = (b + 31 * Mix(d)) % 65521, computed by halves
Mix(d) == (Poly(d, 1, Len(d)) + Pow31(Len(d))) % 65521

\* sha512 of a byte string: lenHash bytes, a fixed function of the input
Sum512(d) ==
    LET m == Mix(d)
    IN  [i \in 1..lenHash |->
            IF i = 1 THEN (m \div 256) % 256
            ELSE IF i = 2 THEN m % 256
            ELSE (m * (2 * i - 1) + i) % 256]

\* HashToKey: if len(s) != lenHash { panic(...) }, cas.go:366-368
HashToKeyPanics(s) == Len(s) # lenHash

\* a variant that does not cut
HashToKeyWhole(s) == hashPrefix \o Hex(s)

\* HashToKey: prefix plus hex of the sum, cut to lenKey characters
HashToKey(s) == SubSeq(hashPrefix \o Hex(s), 1, lenKey)

----------------------------------------------------------------------------
(* Images, manifests, streams *)

TarMagic == 117
GzipMagic == 31

\* types.ACName of name id n
ACName(n) == <<100 + ((2 * n) % 5), 120>>

Label(n, v) == [Name |-> n, Value |-> v]

\* the label sets the fixtures use
LabelTable(l) ==
    CASE l = 1 -> <<>>
      [] l = 2 -> <<Label("version", "1.0")>>
      [] l = 3 -> <<Label("version", "2.0"), Label("os", "linux")>>
      [] OTHER -> <<Label("version", "2.0"), Label("os", "darwin")>>

\* fixture i: images 1 and 2 share a name and a version and differ in os,
\* image 3 carries no manifest, image 4 has another name
Image(i) ==
    <<TarMagic,
      CASE i % 4 = 1 -> 1 [] i % 4 = 2 -> 1 [] i % 4 = 3 -> 0 [] OTHER -> 2,
      CASE i % 4 = 1 -> 3 [] i % 4 = 2 -> 4 [] i % 4 = 3 -> 1 [] OTHER -> 2,
      i>>

Images == {Image(i) : i \in 1..MaxImage}

Gzip(bs) == <<GzipMagic>> \o [i \in 1..Len(bs) |-> (bs[i] + 1) % 256]

\* br.Peek(PeekSize): the bytes seen, at most PeekSize of them; the stream
\* keeps them, the buffered reader hands them out again to whoever reads next
PeekHead(r) == SubSeq(r, 1, Min(PeekSize, Len(r)))

\* the error of br.Peek(PeekSize): that of the read if it failed, io.EOF if
\* the stream ended before PeekSize bytes
PeekErr(r, readFails) ==
    IF readFails THEN "read error"
    ELSE IF Len(r) < PeekSize THEN "EOF"
    ELSE ""

\* a variant that gives up on every error of the peek
PeekFatalOnEOF(err) == err # ""

\* switch err { case nil: case io.EOF: default: return }, cas.go:156-161
PeekFatal(err) == err \notin {"", "EOF"}

\* a variant that takes whatever is not gzip for a tar archive
DetectFileTypeTarByDefault(hd) ==
    IF hd # <<>> /\ hd[1] = GzipMagic THEN "gzip" ELSE "tar"

\* aci.DetectFileType on the peeked header
DetectFileType(hd) ==
    IF hd = <<>> THEN "unknown"
    ELSE IF hd[1] = TarMagic THEN "tar"
    ELSE IF hd[1] = GzipMagic THEN "gzip"
    ELSE "unknown"

\* decompress(br, typ)
decompress(r, typ) ==
    IF typ = "gzip" THEN [i \in 1..(Len(r) - 1) |-> (r[i + 1] + 255) % 256]
    ELSE r

\* aci.ManifestFromImage: the manifest inside the archive, or an error
\* (the manifest entry comes before the payload)
ManifestOk(bs) == Len(bs) >= 3 /\ bs[1] = TarMagic /\ bs[2] # 0

ManifestFromImage(bs) == [Name |-> ACName(bs[2]), Labels |-> LabelTable(bs[3])]

Streams == Images \cup {Gzip(Image(1)), <<0, 1, 1, 1>>}

\* image j of the many that share the name ACName(1)
SelImage(j) == <<TarMagic, 1, 3, 10 + j>>

\* images of two other names, one before and one after ACName(1) in the index
LowImage == <<TarMagic, 3, 2, 8>>
HighImage == <<TarMagic, 2, 2, 9>>

SelImages == {SelImage(j) : j \in 1..MaxBulk} \cup {LowImage, HighImage}

\* the digests of the fixtures, computed once
SumTable == [b \in Images \cup SelImages \cup {ACName(n) : n \in 0..3} |-> Sum512(b)]

\* the tee'd hash.Hash after the bytes b went through it, summed
Sum(b) == IF b \in DOMAIN SumTable THEN SumTable[b] ELSE Sum512(b)

\* ShortSHA512: hex of the sum of a string, cut to lenHashKey characters
ShortTable == [b \in DOMAIN SumTable |-> SubSeq(Hex(SumTable[b]), 1, lenHashKey)]

ShortSHA512(s) ==
    IF s \in DOMAIN ShortTable THEN ShortTable[s]
    ELSE SubSeq(Hex(Sum512(s)), 1, lenHashKey)

KeyTable == [b \in Images \cup SelImages |-> HashToKey(SumTable[b])]

\* the blob key of image b
KeyOf(b) == IF b \in DOMAIN KeyTable THEN KeyTable[b] ELSE HashToKey(Sum512(b))

----------------------------------------------------------------------------
(* Index records *)

\* NewACIInfo(im, blobKey, latest, t)
NewACIInfo(im, blobKey, latest, t) ==
    [typ |-> "aciinfo", BlobKey |-> blobKey, Im |-> im, Latest |-> latest, Time |-> t]

\* NewAppIndex(im, aciInfoKey)
NewAppIndex(im, aciInfoKey) ==
    [typ |-> "appindex", Name |-> im.Name, ACIInfoKey |-> aciInfoKey]

\* Index.Hash(): the record's own key.  GetACI reads an ACIInfo through
\* NewACIInfo(_, appindex.ACIInfoKey, ...).Hash(), so the key of an ACIInfo is
\* the key it was built with; an AppIndex is keyed by the name's short digest
\* followed by the ACIInfo key.
Hash(i) ==
    IF i.typ = "aciinfo" THEN i.BlobKey
    ELSE ShortSHA512(i.Name) \o i.ACIInfoKey

\* Index.Marshal(): the serialized record, a tagged field list
Marshal(i) ==
    IF i.typ = "aciinfo" THEN <<"aciinfo", i.BlobKey, i.Im, i.Latest, i.Time>>
    ELSE <<"appindex", i.Name, i.ACIInfoKey>>

\* what is left of a record that was cut short or overwritten on disk
Garbage == <<"garbage">>

\* Index.Unmarshal(buf) returns nil: buf is the serialized form of a record
\* of type typ
Decodable(buf, typ) == buf # <<>> /\ buf[1] = typ

\* Index.Unmarshal(buf)
Unmarshal(buf) ==
    IF buf[1] = "aciinfo"
    THEN [typ |-> "aciinfo", BlobKey |-> buf[2], Im |-> buf[3], Latest |-> buf[4], Time |-> buf[5]]
    ELSE [typ |-> "appindex", Name |-> buf[2], ACIInfoKey |-> buf[3]]

----------------------------------------------------------------------------
(* Keyed file store *)

EmptyStore == [k \in {} |-> <<>>]

\* diskv Write / Import: the value under key k is replaced
Put(store, k, v) == [x \in (DOMAIN store) \cup {k} |-> IF x = k THEN v ELSE store[x]]

\* the ordered index of a store (diskv.LLRBIndex with strLess): its keys in
\* ascending order.  Insert on Write:
IndexInsert(ix, k) ==
    IF \E j \in 1..Len(ix) : ix[j] = k THEN ix
    ELSE LET below == SelectSeq(ix, LAMBDA x : strLess(x, k))
         IN  below \o <<k>> \o SubSeq(ix, Len(below) + 1, Len(ix))

\* a variant whose first key is `from` itself when the index holds it
IndexKeysFrom(ix, from, n) ==
    LET after == SelectSeq(ix, LAMBDA k : ~strLess(k, from))
    IN  SubSeq(after, 1, Min(n, Len(after)))

\* Index.Keys(from, n): at most n keys in order, starting with the key that
\* follows `from`
IndexKeys(ix, from, n) ==
    LET after == SelectSeq(ix, LAMBDA k : strLess(from, k))
    IN  SubSeq(after, 1, Min(n, Len(after)))

\* a variant that keys an aciinfo record by blob key and latest flag
WriteIndexPutByLatest(store, i) ==
    IF i.typ = "aciinfo"
    THEN Put(store, Hash(i) \o <<IF i.Latest THEN 49 ELSE 48>>, Marshal(i))
    ELSE Put(store, Hash(i), Marshal(i))

\* a variant that keys an aciinfo record by blob key and import time
WriteIndexPutTimed(store, i) ==
    IF i.typ = "aciinfo" THEN Put(store, Hash(i) \o <<48 + i.Time>>, Marshal(i))
    ELSE Put(store, Hash(i), Marshal(i))

\* a variant that keys every record by its image name alone
WriteIndexPutByName(store, i) ==
    Put(store, ShortSHA512(IF i.typ = "aciinfo" THEN i.Im.Name ELSE i.Name), Marshal(i))

\* Store.WriteIndex: what is stored under which key, cas.go:227
WriteIndexPut(store, i) == Put(store, Hash(i), Marshal(i))

\* Store.WriteIndex: the error it returns ("" is nil)
WriteIndexErr(marshalFails, writeFails) ==
    IF marshalFails THEN "marshal error" ELSE ""

\* a variant that writes whatever Marshal left in the buffer
WriteIndexStoredDespiteMarshal(marshalFails, writeFails) == ~writeFails

\* Store.WriteIndex: whether the record reaches the store
WriteIndexStored(marshalFails, writeFails) == ~marshalFails /\ ~writeFails

----------------------------------------------------------------------------
(* Selection engine: Store.GetACI *)

\* the batched scan of the appindex keys, cas.go:253-271.  `start` is
\* startACIInfoKey: the prefix test reads it and each batch reassigns it.
\* (A scan that has collected more keys than the index holds is going round
\* in circles; it is cut off there, so that it shows in the result.)
RECURSIVE ScanKeys(_, _, _, _)
ScanKeys(ix, start, acc, finished) ==
    IF finished \/ Len(acc) > Len(ix) THEN acc
    ELSE LET next == IndexKeys(ix, start, BatchSize)
         IN  IF Len(next) = 0 THEN acc
             ELSE ScanKeys(ix,
                           next[Len(next)],
                           acc \o SelectSeq(next, LAMBDA k : HasPrefix(k, start)),
                           \E j \in 1..Len(next) : ~HasPrefix(next[j], start))

\* labels.Get("version")
VersionRequested(labels) == \E i \in 1..Len(labels) : labels[i].Name = "version"

\* a variant that compares the names of the labels only
HasAllLabelNames(labels, im) ==
    \A i \in 1..Len(labels) :
        \E j \in 1..Len(im.Labels) : labels[i].Name = im.Labels[j].Name

\* the image manifest must have all the requested labels, cas.go:299-311
HasAllLabels(labels, im) ==
    \A i \in 1..Len(labels) :
        \E j \in 1..Len(im.Labels) :
            labels[i].Name = im.Labels[j].Name /\ labels[i].Value = im.Labels[j].Value

\* a variant that ranks by import time alone
ReplacesByTime(cur, a, versionRequested) == a.Time > cur.Time

\* a variant that prefers latest whether or not a version is requested
ReplacesPreferLatest(cur, a, versionRequested) ==
    IF ~cur.Latest /\ a.Latest THEN TRUE
    ELSE IF cur.Latest /\ ~a.Latest THEN FALSE
    ELSE a.Time > cur.Time

\* a variant in which the later of two equal candidates wins
ReplacesOnTie(cur, a, versionRequested) ==
    IF ~versionRequested /\ ~cur.Latest /\ a.Latest THEN TRUE
    ELSE IF ~versionRequested /\ cur.Latest /\ ~a.Latest THEN FALSE
    ELSE a.Time >= cur.Time

\* whether aciinfo replaces curaciinfo, cas.go:313-327
Replaces(cur, a, versionRequested) ==
    IF ~versionRequested /\ ~cur.Latest /\ a.Latest THEN TRUE
    ELSE IF ~versionRequested /\ cur.Latest /\ ~a.Latest THEN FALSE
    ELSE a.Time > cur.Time

\* Store.ReadIndex(i) for the ACIInfo with key k, cas.go:231-242: the error
\* of the store's Read or of Unmarshal ("" is nil)
ReadIndexErr(infos, k) ==
    IF k \notin DOMAIN infos THEN "read error"
    ELSE IF ~Decodable(infos[k], "aciinfo") THEN "unmarshal error"
    ELSE ""

\* a variant of the loop that goes on to the next key when an entry cannot be
\* read or decoded
RECURSIVE SelectBestSkipping(_, _, _, _, _, _)
SelectBestSkipping(apps, infos, keys, j, cur, labels) ==
    IF j > Len(keys) THEN [err |-> "", cur |-> cur]
    ELSE IF keys[j] \notin DOMAIN apps \/ ~Decodable(apps[keys[j]], "appindex")
    THEN SelectBestSkipping(apps, infos, keys, j + 1, cur, labels)
    ELSE IF ReadIndexErr(infos, Unmarshal(apps[keys[j]]).ACIInfoKey) # ""
    THEN SelectBestSkipping(apps, infos, keys, j + 1, cur, labels)
    ELSE LET a == Unmarshal(infos[Unmarshal(apps[keys[j]]).ACIInfoKey])
         IN  IF ~HasAllLabels(labels, a.Im)
             THEN SelectBestSkipping(apps, infos, keys, j + 1, cur, labels)
             ELSE IF cur = <<>> \/ Replaces(cur[1], a, VersionRequested(labels))
             THEN SelectBestSkipping(apps, infos, keys, j + 1, <<a>>, labels)
             ELSE SelectBestSkipping(apps, infos, keys, j + 1, cur, labels)

\* the loop over the collected keys, cas.go:279-331.  cur is <<>> (nil) or
\* <<curaciinfo>>.
RECURSIVE SelectBest(_, _, _, _, _, _)
SelectBest(apps, infos, keys, j, cur, labels) ==
    IF j > Len(keys) THEN [err |-> "", cur |-> cur]
    ELSE IF keys[j] \notin DOMAIN apps
    THEN [err |-> "cannot get AppIndex", cur |-> <<>>]
    ELSE IF ~Decodable(apps[keys[j]], "appindex")
    THEN [err |-> "cannot unmarshal AppIndex", cur |-> <<>>]
    ELSE LET ai == Unmarshal(apps[keys[j]])
             rd == NewACIInfo([Name |-> <<>>, Labels |-> <<>>], ai.ACIInfoKey, FALSE, 0)
         IN  IF ReadIndexErr(infos, Hash(rd)) # ""
             THEN [err |-> "cannot get ACIInfo", cur |-> <<>>]
             ELSE LET a == Unmarshal(infos[Hash(rd)])
                  IN  IF ~HasAllLabels(labels, a.Im)
                      THEN SelectBest(apps, infos, keys, j + 1, cur, labels)
                      ELSE IF cur = <<>>
                      THEN SelectBest(apps, infos, keys, j + 1, <<a>>, labels)
                      ELSE IF Replaces(cur[1], a, VersionRequested(labels))
                      THEN SelectBest(apps, infos, keys, j + 1, <<a>>, labels)
                      ELSE SelectBest(apps, infos, keys, j + 1, cur, labels)

\* Store.GetACI(name, labels): the key returned, the error ("" is nil) and
\* the candidate keys it collected
GetACI(ix, apps, infos, name, labels) ==
    LET keys == ScanKeys(ix, ShortSHA512(name), <<>>, FALSE)
        r    == SelectBest(apps, infos, keys, 1, <<>>, labels)
    IN  IF r.err # "" THEN [key |-> <<>>, err |-> r.err, cands |-> keys]
        ELSE IF r.cur # <<>> THEN [key |-> r.cur[1].BlobKey, err |-> "", cands |-> keys]
        ELSE [key |-> <<>>, err |-> "aci not found", cands |-> keys]

\* Store.ReadStream(key), cas.go:139-141: the bytes under the key, or an error
ReadStream(store, key) ==
    IF key \in DOMAIN store THEN [bytes |-> store[key], err |-> ""]
    ELSE [bytes |-> <<>>, err |-> "not found"]

----------------------------------------------------------------------------
(* Partial-key resolver: Store.ResolveKey *)

\* a variant that does not truncate
TruncateNot(key) == key

\* if len(key) > lenKey { key = key[:lenKey] }, cas.go:113-115
Truncate(key) == IF Len(key) > lenKey THEN SubSeq(key, 1, lenKey) ELSE key

\* a variant with the length comparison turned round
IsFullKeyShorter(key) == HasPrefix(key, hashPrefix) /\ Len(key) < lenKey

\* strings.HasPrefix(key, hashPrefix) && len(key) == lenKey, cas.go:116
IsFullKey(key) == HasPrefix(key, hashPrefix) /\ Len(key) = lenKey

\* diskv KeysPrefix(prefix, cancel): the keys of the store that start with prefix
KeysPrefix(store, prefix) == {k \in DOMAIN store : HasPrefix(k, prefix)}

\* a variant whose loop leaves at the first key
KeyCountFirst(matches) == Min(Cardinality(matches), 1)

\* keyCount after the loop, cas.go:122-129: the loop leaves at the second key
KeyCount(matches) == Min(Cardinality(matches), 2)

\* a variant that wants more than one key
ResolveErrOffByOne(keyCount) ==
    IF keyCount <= 1 THEN "no keys found" ELSE "ambiguous key"

\* a variant without the test for no key
ResolveErrNoZeroTest(keyCount) ==
    IF keyCount # 1 THEN "ambiguous key" ELSE ""

\* the error for a key count, cas.go:130-135 ("" is nil)
ResolveErr(keyCount) ==
    IF keyCount = 0 THEN "no keys found"
    ELSE IF keyCount # 1 THEN "ambiguous key"
    ELSE ""

\* Store.ResolveKey(key): the key returned, the error, the key the error
\* message quotes, and whether the blob store was consulted
ResolveKey(store, key) ==
    LET k == Truncate(key)
    IN  IF IsFullKey(k)
        THEN [key |-> k, err |-> "", quoted |-> <<>>, io |-> FALSE]
        ELSE LET matches == KeysPrefix(store, k)
                 err     == ResolveErr(KeyCount(matches))
             IN  [key    |-> IF err = "" THEN CHOOSE x \in matches : TRUE ELSE <<>>,
                  err    |-> err,
                  quoted |-> IF err = "ambiguous key" THEN k ELSE <<>>,
                  io     |-> TRUE]

----------------------------------------------------------------------------
(* State *)

Procs == {1, 2}

NoIm == [Name |-> <<>>, Labels |-> <<>>]

NoInfo == NewACIInfo(NoIm, <<>>, FALSE, 0)

\* a caller that is not inside WriteACI
IdleProc ==
    [pc |-> "idle", typ |-> "", dr |-> <<>>, latest |-> FALSE, fh |-> 0, h |-> <<>>,
     im |-> NoIm, key |-> <<>>, info |-> NoInfo,
     infoStored |-> FALSE, appStored |-> FALSE, why |-> "",
     ret |-> [key |-> <<>>, err |-> ""]]

\* return "", fmt.Errorf(...): the locals die, the temp file's name is kept
\* to tell which file the call had created (a call that returns a key also
\* keeps what it was called with, typ, dr and latest, and the ACIInfo it made)
Fail(pr, err) ==
    [IdleProc EXCEPT !.pc = "done", !.fh = pr.fh, !.ret = [key |-> <<>>, err |-> err]]

NoKeyed == [sum |-> <<>>, key |-> <<>>, panic |-> FALSE, called |-> FALSE]

NoResolve == [arg |-> <<>>, key |-> <<>>, err |-> "none", quoted |-> <<>>, io |-> FALSE]

\* no ResolveKey call is iterating over the blob store
NoIter ==
    [pc |-> "idle", arg |-> <<>>, prod |-> "none", todo |-> <<>>, keyCount |-> 0, k |-> <<>>,
     cancels |-> 0, late |-> 0, seen |-> FALSE, err |-> "none"]

NoGet == [name |-> <<>>, labels |-> <<>>, key |-> <<>>, err |-> "none", cands |-> <<>>]

\* the lookups the callers make: a name and the labels requested
Queries ==
    { [name |-> ACName(1), labels |-> <<>>],
      [name |-> ACName(1), labels |-> <<Label("version", "2.0")>>],
      [name |-> ACName(1), labels |-> <<Label("os", "linux")>>],
      [name |-> ACName(2), labels |-> <<>>] }

Init ==
    /\ blob = EmptyStore
    /\ aciinfo = EmptyStore
    /\ appindex = EmptyStore
    /\ index = <<>>
    /\ tmp = EmptyStore
    /\ nextTmp = 0
    /\ clock = 0
    /\ calls = 0
    /\ procs = [p \in Procs |-> IdleProc]
    /\ indexed = {}
    /\ raw = {}
    /\ got = NoGet
    /\ resolved = NoResolve
    /\ keyed = NoKeyed
    /\ lastInfo = 0
    /\ iter = NoIter

Remove(store, k) == [x \in (DOMAIN store) \ {k} |-> store[x]]

----------------------------------------------------------------------------
(* Store.WriteACI, one action per step that touches the file system *)

\* cas.go:152-169: peek the header, detect the type, wrap the decompressor;
\* a call that gives up on the peek keeps the error the peek gave (why)
CallWith(p, streams) ==
    /\ procs[p].pc = "idle"
    /\ calls < MaxCalls
    /\ \E r \in streams, latest \in BOOLEAN, fails \in {"", "peek", "decompress"} :
          LET hd   == PeekHead(r)
              perr == PeekErr(r, fails = "peek")
              typ  == DetectFileType(hd)
          IN  procs' = [procs EXCEPT ![p] =
                  IF PeekFatal(perr)
                  THEN [Fail(IdleProc, "error reading image header") EXCEPT !.why = perr]
                  ELSE IF typ = "unknown" THEN Fail(IdleProc, "error detecting image type")
                  ELSE IF fails = "decompress" THEN Fail(IdleProc, "error decompressing image")
                  ELSE [IdleProc EXCEPT !.pc = "tmpFile", !.typ = typ,
                                        !.dr = decompress(r, typ), !.latest = latest]]
    /\ calls' = calls + 1
    /\ got' = NoGet
    /\ resolved' = NoResolve
    /\ keyed' = keyed
    /\ lastInfo' = lastInfo
    /\ iter' = iter
    /\ UNCHANGED <<blob, aciinfo, appindex, index, tmp, nextTmp, clock, indexed, raw>>

\* WriteACI(r, latest) entered with one of the fixture streams
Call(p) == CallWith(p, Streams)

\* cas.go:175-178 and Store.tmpFile, cas.go:100-106
TmpFile(p) ==
    /\ procs[p].pc = "tmpFile"
    /\ \E fails \in BOOLEAN :
          IF fails
          THEN /\ procs' = [procs EXCEPT ![p] = Fail(@, "error creating image")]
               /\ UNCHANGED <<tmp, nextTmp>>
          ELSE /\ nextTmp' = nextTmp + 1
               /\ tmp' = Put(tmp, nextTmp + 1, <<>>)
               /\ procs' = [procs EXCEPT ![p].pc = "copy", ![p].fh = nextTmp + 1]
    /\ got' = NoGet
    /\ resolved' = NoResolve
    /\ keyed' = keyed
    /\ lastInfo' = lastInfo
    /\ iter' = iter
    /\ UNCHANGED <<blob, aciinfo, appindex, index, clock, calls, indexed, raw>>

\* a variant that goes on after a failed copy
AfterCopyIgnoringError(short) == "manifest"

\* where WriteACI goes after io.Copy returned, cas.go:179-181
AfterCopy(short) == IF short THEN "done" ELSE "manifest"

\* cas.go:173-174, 179-181: io.Copy through the tee; n bytes arrive
Copy(p) ==
    /\ procs[p].pc = "copy"
    /\ \E n \in {Len(procs[p].dr) - 1, Len(procs[p].dr)} :
          LET written == SubSeq(procs[p].dr, 1, n)
          IN  /\ tmp' = Put(tmp, procs[p].fh, written)
              /\ procs' = [procs EXCEPT ![p] =
                     IF AfterCopy(n < Len(procs[p].dr)) = "done"
                     THEN Fail([@ EXCEPT !.h = written], "error copying image")
                     ELSE [@ EXCEPT !.pc = AfterCopy(n < Len(procs[p].dr)), !.h = written]]
    /\ got' = NoGet
    /\ resolved' = NoResolve
    /\ keyed' = keyed
    /\ lastInfo' = lastInfo
    /\ iter' = iter
    /\ UNCHANGED <<blob, aciinfo, appindex, index, nextTmp, clock, calls, indexed, raw>>

\* a variant that goes on without a manifest
AfterManifestIgnoringError(ok) == "close"

\* where WriteACI goes after aci.ManifestFromImage returned, cas.go:184-186
AfterManifest(ok) == IF ok THEN "close" ELSE "done"

\* cas.go:183-186
Manifest(p) ==
    /\ procs[p].pc = "manifest"
    /\ procs' = [procs EXCEPT ![p] =
           IF AfterManifest(ManifestOk(tmp[procs[p].fh])) = "done"
           THEN Fail(@, "error extracting ImageManifest")
           ELSE [@ EXCEPT !.pc = AfterManifest(ManifestOk(tmp[procs[p].fh])),
                          !.im = ManifestFromImage(tmp[procs[p].fh])]]
    /\ got' = NoGet
    /\ resolved' = NoResolve
    /\ keyed' = keyed
    /\ lastInfo' = lastInfo
    /\ iter' = iter
    /\ UNCHANGED <<blob, aciinfo, appindex, index, tmp, nextTmp, clock, calls, indexed, raw>>

\* cas.go:187-189
Close(p) ==
    /\ procs[p].pc = "close"
    /\ \E fails \in BOOLEAN :
          procs' = [procs EXCEPT ![p] =
              IF fails THEN Fail(@, "error closing image") ELSE [@ EXCEPT !.pc = "import"]]
    /\ got' = NoGet
    /\ resolved' = NoResolve
    /\ keyed' = keyed
    /\ lastInfo' = lastInfo
    /\ iter' = iter
    /\ UNCHANGED <<blob, aciinfo, appindex, index, tmp, nextTmp, clock, calls, indexed, raw>>

\* a variant that goes on to the index writes after a failed Import
AfterImportIgnoringError(fails) == "aciinfo"

\* a variant that writes the appindex record right after the import
AfterImportSkippingInfo(fails) == IF fails THEN "done" ELSE "appindex"

\* where WriteACI goes after Import returned, cas.go:193-195
AfterImport(fails) == IF fails THEN "done" ELSE "aciinfo"

\* a variant whose key carries the whole digest
ImportKeyWhole(h) == hashPrefix \o Hex(Sum(h))

\* a variant whose key is one character short
ImportKeyCutShort(h) == SubSeq(HashToKey(Sum(h)), 1, lenKey - 1)

\* a variant that drops the digest
ImportKeyTagOnly(h) == hashPrefix

\* key := HashToKey(h), cas.go:192
ImportKey(h) == HashToKey(Sum(h))

\* cas.go:191-195: Import(fh.Name(), key, true) renames the temp file
Import(p) ==
    /\ procs[p].pc = "import"
    /\ \E fails \in BOOLEAN :
          LET key == ImportKey(procs[p].h)
          IN  /\ IF fails THEN UNCHANGED <<blob, tmp, raw>>
                 ELSE /\ blob' = Put(blob, key, tmp[procs[p].fh])
                      /\ tmp' = Remove(tmp, procs[p].fh)
                      /\ raw' = raw \ {key}
              /\ procs' = [procs EXCEPT ![p] =
                     IF AfterImport(fails) = "done"
                     THEN Fail(@, "error importing image")
                     ELSE [@ EXCEPT !.pc = AfterImport(fails), !.key = key]]
    /\ got' = NoGet
    /\ resolved' = NoResolve
    /\ keyed' = keyed
    /\ lastInfo' = lastInfo
    /\ iter' = iter
    /\ UNCHANGED <<aciinfo, appindex, index, nextTmp, clock, calls, indexed>>

\* cas.go:197-203: NewACIInfo(im, key, latest, time.Now()) and its WriteIndex
WriteACIInfo(p) ==
    /\ procs[p].pc = "aciinfo"
    /\ \E t \in {clock, clock + 1}, marshalFails \in BOOLEAN, writeFails \in BOOLEAN :
          LET i   == NewACIInfo(procs[p].im, procs[p].key, procs[p].latest, t)
              err == WriteIndexErr(marshalFails, writeFails)
          IN  /\ t <= MaxTime
              /\ marshalFails => ~writeFails
              /\ clock' = t
              /\ lastInfo' = IF err = "" THEN p ELSE lastInfo
              /\ iter' = iter
              /\ aciinfo' = IF WriteIndexStored(marshalFails, writeFails)
                            THEN WriteIndexPut(aciinfo, i) ELSE aciinfo
              /\ procs' = [procs EXCEPT ![p] =
                     IF err # "" THEN Fail(@, "error writing aciinfo index")
                     ELSE [@ EXCEPT !.pc = "appindex", !.info = i,
                                    !.infoStored = WriteIndexStored(marshalFails, writeFails)]]
    /\ got' = NoGet
    /\ resolved' = NoResolve
    /\ keyed' = keyed
    /\ UNCHANGED <<blob, appindex, index, tmp, nextTmp, calls, indexed, raw>>

\* cas.go:205-212: NewAppIndex(im, aciinfo.Hash()), its WriteIndex, return key
WriteAppIndex(p) ==
    /\ procs[p].pc = "appindex"
    /\ \E marshalFails \in BOOLEAN, writeFails \in BOOLEAN :
          LET i      == NewAppIndex(procs[p].im, Hash(procs[p].info))
              err    == WriteIndexErr(marshalFails, writeFails)
              stored == WriteIndexStored(marshalFails, writeFails)
          IN  /\ marshalFails => ~writeFails
              /\ appindex' = IF stored THEN WriteIndexPut(appindex, i) ELSE appindex
              /\ index' = IF stored THEN IndexInsert(index, Hash(i)) ELSE index
              /\ indexed' = IF stored /\ procs[p].infoStored
                            THEN indexed \cup {procs[p].key} ELSE indexed
              /\ procs' = [procs EXCEPT ![p] =
                     IF err # "" THEN Fail(@, "error writing appindex index")
                     ELSE [IdleProc EXCEPT !.pc = "done", !.fh = procs[p].fh,
                                           !.typ = procs[p].typ, !.dr = procs[p].dr,
                                           !.latest = procs[p].latest,
                                           !.info = procs[p].info,
                                           !.infoStored = procs[p].infoStored,
                                           !.appStored = stored,
                                           !.ret = [key |-> procs[p].key, err |-> ""]]]
    /\ got' = NoGet
    /\ resolved' = NoResolve
    /\ keyed' = keyed
    /\ lastInfo' = lastInfo
    /\ iter' = iter
    /\ UNCHANGED <<blob, aciinfo, tmp, nextTmp, clock, calls, raw>>

\* the caller takes the result; it may call again
Reset(p) ==
    /\ procs[p].pc = "done"
    /\ procs' = [procs EXCEPT ![p] = IdleProc]
    /\ got' = NoGet
    /\ resolved' = NoResolve
    /\ keyed' = keyed
    /\ lastInfo' = lastInfo
    /\ iter' = iter
    /\ UNCHANGED <<blob, aciinfo, appindex, index, tmp, nextTmp, clock, calls, indexed, raw>>

----------------------------------------------------------------------------
(* The other exposed operations *)

\* a variant of the store's reads that takes away what it has read
AfterReadConsuming(store, keys) == [x \in (DOMAIN store) \ keys |-> store[x]]

\* a store after diskv's Read, Index.Keys or KeysPrefix went over the keys
\* given: they leave every file as it is
AfterRead(store, keys) == store

\* the keys of a list
KeysIn(list) == {list[j] : j \in 1..Len(list)}

\* the aciinfo keys the appindex records under the keys given point to
InfoKeysOf(keys) ==
    {Unmarshal(appindex[k]).ACIInfoKey :
        k \in {x \in keys \cap DOMAIN appindex : Decodable(appindex[x], "appindex")}}

\* Store.GetACI(name, labels), cas.go:250-337
Lookup ==
    /\ \E q \in Queries :
          LET r == GetACI(index, appindex, aciinfo, q.name, q.labels)
          IN  /\ got' = [name |-> q.name, labels |-> q.labels, key |-> r.key,
                         err |-> r.err, cands |-> r.cands]
              /\ appindex' = AfterRead(appindex, KeysIn(r.cands))
              /\ aciinfo' = AfterRead(aciinfo, InfoKeysOf(KeysIn(r.cands)))
    /\ resolved' = NoResolve
    /\ keyed' = keyed
    /\ lastInfo' = lastInfo
    /\ iter' = iter
    /\ UNCHANGED <<blob, index, tmp, nextTmp, clock, calls, procs, indexed, raw>>

\* Store.WriteStream(key, r), cas.go:143-145: the bytes of r under the given key
WriteStream ==
    /\ \E key \in {KeyOf(Image(1))}, r \in {Image(1), Image(2)} :
          /\ blob' = Put(blob, key, r)
          /\ raw' = raw \cup {key}
    /\ got' = NoGet
    /\ resolved' = NoResolve
    /\ keyed' = keyed
    /\ lastInfo' = lastInfo
    /\ iter' = iter
    /\ UNCHANGED <<aciinfo, appindex, index, tmp, nextTmp, clock, calls, procs, indexed>>

\* the records a caller hands to WriteIndex directly
IndexInputs ==
    { NewACIInfo(ManifestFromImage(Image(1)), KeyOf(Image(2)), TRUE, 0),
      NewAppIndex(ManifestFromImage(Image(1)), KeyOf(Image(2))) }

\* Store.WriteIndex(i), cas.go:222-229, called by a client of the store
WriteIndex ==
    /\ \E i \in IndexInputs, marshalFails \in BOOLEAN, writeFails \in BOOLEAN :
          LET stored == WriteIndexStored(marshalFails, writeFails)
          IN  /\ marshalFails => ~writeFails
              /\ aciinfo' = IF stored /\ i.typ = "aciinfo"
                            THEN WriteIndexPut(aciinfo, i) ELSE aciinfo
              /\ appindex' = IF stored /\ i.typ = "appindex"
                             THEN WriteIndexPut(appindex, i) ELSE appindex
              /\ index' = IF stored /\ i.typ = "appindex"
                          THEN IndexInsert(index, Hash(i)) ELSE index
    /\ got' = NoGet
    /\ resolved' = NoResolve
    /\ keyed' = keyed
    /\ lastInfo' = lastInfo
    /\ iter' = iter
    /\ UNCHANGED <<blob, tmp, nextTmp, clock, calls, procs, indexed, raw>>

----------------------------------------------------------------------------
(* Specifications *)

\* one step of caller p inside (or entering, or leaving) WriteACI
WriteACI(p) ==
    \/ Call(p)
    \/ TmpFile(p)
    \/ Copy(p)
    \/ Manifest(p)
    \/ Close(p)
    \/ Import(p)
    \/ WriteACIInfo(p)
    \/ WriteAppIndex(p)
    \/ Reset(p)

\* the whole exposed surface, used by one caller
Next ==
    \/ WriteACI(1)
    \/ WriteStream
    \/ WriteIndex
    \/ Lookup

Spec == Init /\ [][Next]_vars

\* concurrent WriteACI calls and lookups
NextWriteACI ==
    \/ \E p \in Procs : WriteACI(p)
    \/ Lookup

SpecWriteACI == Init /\ [][NextWriteACI]_vars

\* concurrent WriteACI calls, nothing else
NextAdmit == \E p \in Procs : WriteACI(p)

SpecAdmit == Init /\ [][NextAdmit]_vars

\* an archive longer than the peek: fixture 1 with a longer payload
LongImage == <<TarMagic, 1, 3, 7>> \o [i \in 1..(PeekSize - 2) |-> 0]

\* streams around the size of the peek: shorter (plain, compressed, of no
\* known type, empty) and longer
PeekStreams == {Image(1), Gzip(Image(1)), <<0, 1, 1, 1>>, <<>>, LongImage}

\* WriteACI(r, latest) entered with one of these
CallPeek(p) == CallWith(p, PeekStreams)

\* one caller, streams on both sides of the peek size
NextPeek ==
    \/ CallPeek(1)
    \/ TmpFile(1)
    \/ Copy(1)
    \/ Manifest(1)
    \/ Close(1)
    \/ Import(1)
    \/ WriteACIInfo(1)
    \/ WriteAppIndex(1)
    \/ Reset(1)

SpecPeek == Init /\ [][NextPeek]_vars

\* caller p moves while no other caller is inside WriteACI
Turn(p) ==
    /\ \A o \in Procs \ {p} : procs[o].pc \in {"idle", "done"}
    /\ WriteACI(p)

\* WriteACI calls made one after the other
NextSeq == \E p \in Procs : Turn(p)

SpecSeq == Init /\ [][NextSeq]_vars

----------------------------------------------------------------------------
(* The selection engine on larger stores.  A store is built by a run of    *)
(* successful admissions, each the blob import and the two index writes of *)
(* WriteACI; then lookups are made.                                        *)

\* the stores after WriteACI(img, latest) completed at time t
Admit(st, img, latest, t) ==
    LET key  == ImportKey(img)
        im   == ManifestFromImage(img)
        info == NewACIInfo(im, key, latest, t)
        app  == NewAppIndex(im, Hash(info))
    IN  [blob     |-> Put(st.blob, key, img),
         aciinfo  |-> WriteIndexPut(st.aciinfo, info),
         appindex |-> WriteIndexPut(st.appindex, app),
         index    |-> IndexInsert(st.index, Hash(app))]

RECURSIVE AdmitAll(_)
AdmitAll(adms) ==
    IF adms = <<>>
    THEN [blob |-> EmptyStore, aciinfo |-> EmptyStore, appindex |-> EmptyStore,
          index |-> <<>>]
    ELSE LET a == adms[Len(adms)]
         IN  Admit(AdmitAll(SubSeq(adms, 1, Len(adms) - 1)), a.img, a.latest, a.t)

\* n images of one name, image `lat` marked latest, image `newest` imported
\* after the others; optionally an image of a lower and of a higher name
Admissions(n, lat, newest, lo, hi) ==
    (IF lo THEN <<[img |-> LowImage, latest |-> FALSE, t |-> 0]>> ELSE <<>>)
    \o (IF hi THEN <<[img |-> HighImage, latest |-> TRUE, t |-> 0]>> ELSE <<>>)
    \o [j \in 1..n |-> [img |-> SelImage(j), latest |-> (j = lat),
                        t |-> IF j = newest THEN 1 ELSE 0]]

InitSel ==
    \E n \in 0..MaxBulk, lo \in BOOLEAN, hi \in BOOLEAN :
      \E lat \in {0, 1}, newest \in 0..n :
        LET adms == Admissions(n, lat, newest, lo, hi)
            st   == AdmitAll(adms)
        IN  /\ blob = st.blob
            /\ aciinfo = st.aciinfo
            /\ appindex = st.appindex
            /\ index = st.index
            /\ tmp = EmptyStore
            /\ nextTmp = Len(adms)
            /\ clock = 1
            /\ calls = Len(adms)
            /\ procs = [p \in Procs |-> IdleProc]
            /\ indexed = DOMAIN st.blob
            /\ raw = {}
            /\ got = NoGet
            /\ resolved = NoResolve
            /\ keyed = NoKeyed
            /\ lastInfo = 0
            /\ iter = NoIter

NextSel == Lookup

\* what can have happened to one record of a store directory: nothing, the
\* file is gone (the in-memory index of appindex still lists its key), or its
\* content does not decode
Damages(st) ==
    {[store |-> "none", key |-> <<>>, kind |-> "none"]}
    \cup {[store |-> "appindex", key |-> k, kind |-> d] :
              k \in DOMAIN st.appindex, d \in {"lost", "garbled"}}
    \cup {[store |-> "aciinfo", key |-> k, kind |-> d] :
              k \in DOMAIN st.aciinfo, d \in {"lost", "garbled"}}

\* store `name` of st after damage d
Damaged(st, name, d) ==
    IF d.store # name THEN st[name]
    ELSE IF d.kind = "lost" THEN Remove(st[name], d.key)
    ELSE Put(st[name], d.key, Garbage)

\* a store that holds up to MaxDamaged images of one name and images of other
\* names, one record of which may be damaged; then lookups are made
InitFault ==
    \E n \in 1..MaxDamaged, lo \in BOOLEAN, hi \in BOOLEAN :
      \E lat \in {0, 1}, newest \in 0..n :
        LET adms == Admissions(n, lat, newest, lo, hi)
            st   == AdmitAll(adms)
        IN  \E d \in Damages(st) :
            /\ blob = st.blob
            /\ aciinfo = Damaged(st, "aciinfo", d)
            /\ appindex = Damaged(st, "appindex", d)
            /\ index = st.index
            /\ tmp = EmptyStore
            /\ nextTmp = Len(adms)
            /\ clock = 1
            /\ calls = Len(adms)
            /\ procs = [p \in Procs |-> IdleProc]
            /\ indexed = DOMAIN st.blob
            /\ raw = {}
            /\ got = NoGet
            /\ resolved = NoResolve
            /\ keyed = NoKeyed
            /\ lastInfo = 0
            /\ iter = NoIter

NextFault == Lookup

SpecFault == InitFault /\ [][NextFault]_vars

SpecSel == InitSel /\ [][NextSel]_vars

----------------------------------------------------------------------------
(* The partial-key resolver over a blob store filled through WriteStream   *)

\* a full key whose hex part starts with the characters a, b
FullKey(a, b) == hashPrefix \o <<a, b>> \o [i \in 1..(lenHashKey - 2) |-> 48]

\* the keys blobs are stored under: three that share prefixes of different
\* lengths and the key of an image
StoredKeys == {FullKey(97, 98), FullKey(97, 99), FullKey(98, 98), KeyOf(Image(1))}

\* a full key no blob is stored under, and a string of the length of a key
\* without the algorithm tag
AbsentKey == FullKey(99, 99)
Untagged == [i \in 1..lenKey |-> 120]

Suffix(n) == [i \in 1..n |-> 122]

PrefixLens ==
    {0, 3, Len(hashPrefix), Len(hashPrefix) + 1, Len(hashPrefix) + 2, lenKey - 1, lenKey}

\* the strings ResolveKey is called with: prefixes of stored and of absent
\* keys, and keys followed by a suffix
ResolveInputs ==
    {SubSeq(k, 1, n) : k \in StoredKeys \cup {AbsentKey, Untagged}, n \in PrefixLens}
    \cup {k \o Suffix(n) : k \in StoredKeys \cup {AbsentKey, Untagged}, n \in 1..MaxSuffix}

\* Store.WriteStream(key, r), cas.go:143-145, with the keys above
WriteStreamKey ==
    /\ \E key \in StoredKeys :
          /\ blob' = Put(blob, key, Image(1))
          /\ raw' = raw \cup {key}
    /\ got' = NoGet
    /\ resolved' = NoResolve
    /\ keyed' = keyed
    /\ lastInfo' = lastInfo
    /\ iter' = iter
    /\ UNCHANGED <<aciinfo, appindex, index, tmp, nextTmp, clock, calls, procs, indexed>>

\* Store.ResolveKey(key), cas.go:112-137, called with one of the strings given
ResolveWith(inputs) ==
    /\ \E key \in inputs :
          LET r == ResolveKey(blob, key)
          IN  /\ resolved' = [arg |-> key, key |-> r.key, err |-> r.err,
                              quoted |-> r.quoted, io |-> r.io]
              /\ blob' = IF r.io THEN AfterRead(blob, KeysPrefix(blob, Truncate(key)))
                          ELSE blob
    /\ got' = NoGet
    /\ keyed' = keyed
    /\ lastInfo' = lastInfo
    /\ iter' = iter
    /\ UNCHANGED <<aciinfo, appindex, index, tmp, nextTmp, clock, calls, procs, indexed, raw>>

Resolve == ResolveWith(ResolveInputs)

\* the strings ResolveKey is called with next to WriteACI: the algorithm tag
\* alone, a partial key of one image, the full key of another
ReadInputs ==
    {hashPrefix, SubSeq(KeyOf(Image(1)), 1, Len(hashPrefix) + 4), KeyOf(Image(2))}

ResolveAdmitted == ResolveWith(ReadInputs)

\* one caller that admits images, looks them up and resolves partial keys
NextRead ==
    \/ WriteACI(1)
    \/ Lookup
    \/ ResolveAdmitted

SpecRead == Init /\ [][NextRead]_vars

NextResolve == WriteStreamKey \/ Resolve

SpecResolve == Init /\ [][NextResolve]_vars

----------------------------------------------------------------------------
(* ResolveKey step by step: the loop of cas.go:120-129 receives the keys    *)
(* from the goroutine of KeysPrefix over an unbuffered channel, and closes  *)
(* the cancel channel to stop it.  The goroutine walks the store in the     *)
(* order of the keys; at each matching key it either hands the key over or  *)
(* sees the cancel channel closed and gives up; at the end it closes the    *)
(* channel of keys.                                                         *)

\* the elements of a set of keys, in ascending order
RECURSIVE Ascending(_)
Ascending(S) ==
    IF S = {} THEN <<>>
    ELSE LET m == CHOOSE x \in S : \A y \in S \ {x} : strLess(x, y)
         IN  <<m>> \o Ascending(S \ {m})

\* a variant that lets one more key through
CancelNowLate(keyCount) == keyCount > 2

\* if keyCount > 1 { close(cancel); break }, cas.go:125
CancelNow(keyCount) == keyCount > 1

\* the strings the stepwise ResolveKey is called with: prefixes matching all,
\* two, one and none of the keys, and a full key
CancelInputs ==
    {hashPrefix, hashPrefix \o <<97>>, hashPrefix \o <<97, 98>>, hashPrefix \o <<99>>,
     FullKey(97, 98)}

\* a blob store holding any of the keys
InitCancel ==
    /\ \E K \in SUBSET StoredKeys :
          /\ blob = [k \in K |-> Image(1)]
          /\ raw = K
    /\ aciinfo = EmptyStore
    /\ appindex = EmptyStore
    /\ index = <<>>
    /\ tmp = EmptyStore
    /\ nextTmp = 0
    /\ clock = 0
    /\ calls = 0
    /\ procs = [p \in Procs |-> IdleProc]
    /\ indexed = {}
    /\ got = NoGet
    /\ resolved = NoResolve
    /\ keyed = NoKeyed
    /\ lastInfo = 0
    /\ iter = NoIter

\* cas.go:112-123: truncation, the full-key return, make(cancel), KeysPrefix
StartResolve ==
    /\ iter.pc = "idle"
    /\ \E key \in CancelInputs :
          LET k == Truncate(key)
          IN  IF IsFullKey(k)
              THEN /\ iter' = [NoIter EXCEPT !.pc = "returned", !.arg = key, !.k = k,
                                             !.err = ""]
                   /\ resolved' = [arg |-> key, key |-> k, err |-> "", quoted |-> <<>>,
                                   io |-> FALSE]
              ELSE /\ iter' = [NoIter EXCEPT !.pc = "range", !.arg = key, !.k = k,
                                             !.prod = "walking",
                                             !.todo = Ascending(KeysPrefix(blob, k))]
                   /\ resolved' = NoResolve
    /\ UNCHANGED <<blob, aciinfo, appindex, index, tmp, nextTmp, clock, calls, procs, indexed,
                   raw, got, keyed, lastInfo>>

\* for k = range ..., cas.go:123: the goroutine's send and the loop's receive
\* meet on the unbuffered channel
Receive ==
    /\ iter.pc = "range"
    /\ iter.prod = "walking"
    /\ iter.todo # <<>>
    /\ iter' = [iter EXCEPT !.pc = "count", !.k = Head(iter.todo), !.todo = Tail(iter.todo),
                            !.late = iter.late + (IF iter.cancels > 0 THEN 1 ELSE 0)]
    /\ UNCHANGED <<blob, aciinfo, appindex, index, tmp, nextTmp, clock, calls, procs, indexed,
                   raw, got, resolved, keyed, lastInfo>>

\* keyCount++ and the test that closes cancel and leaves the loop, cas.go:124-128
Count ==
    /\ iter.pc = "count"
    /\ LET n == iter.keyCount + 1
       IN  iter' = IF CancelNow(n)
                   THEN [iter EXCEPT !.keyCount = n, !.cancels = iter.cancels + 1,
                                     !.pc = "after"]
                   ELSE [iter EXCEPT !.keyCount = n, !.pc = "range"]
    /\ UNCHANGED <<blob, aciinfo, appindex, index, tmp, nextTmp, clock, calls, procs, indexed,
                   raw, got, resolved, keyed, lastInfo>>

\* the range loop ends on the closed channel of keys, cas.go:123
RangeEnds ==
    /\ iter.pc = "range"
    /\ iter.prod = "closed"
    /\ iter' = [iter EXCEPT !.pc = "after"]
    /\ UNCHANGED <<blob, aciinfo, appindex, index, tmp, nextTmp, clock, calls, procs, indexed,
                   raw, got, resolved, keyed, lastInfo>>

\* the returns after the loop, cas.go:130-136
ReturnKey ==
    /\ iter.pc = "after"
    /\ LET err == ResolveErr(iter.keyCount)
       IN  /\ iter' = [iter EXCEPT !.pc = "returned", !.err = err]
           /\ resolved' = [arg    |-> iter.arg,
                           key    |-> IF err = "" THEN iter.k ELSE <<>>,
                           err    |-> err,
                           quoted |-> IF err = "ambiguous key" THEN Truncate(iter.arg)
                                      ELSE <<>>,
                           io     |-> TRUE]
    /\ UNCHANGED <<blob, aciinfo, appindex, index, tmp, nextTmp, clock, calls, procs, indexed,
                   raw, got, keyed, lastInfo>>

\* the goroutine of KeysPrefix reaches the end of its walk and closes the
\* channel of keys
ProducerCloses ==
    /\ iter.prod = "walking"
    /\ iter.todo = <<>>
    /\ iter' = [iter EXCEPT !.prod = "closed"]
    /\ UNCHANGED <<blob, aciinfo, appindex, index, tmp, nextTmp, clock, calls, procs, indexed,
                   raw, got, resolved, keyed, lastInfo>>

\* the goroutine of KeysPrefix, about to hand over a key, finds the cancel
\* channel closed: it abandons the walk and closes the channel of keys
ProducerCancelled ==
    /\ iter.prod = "walking"
    /\ iter.todo # <<>>
    /\ iter.cancels > 0
    /\ iter' = [iter EXCEPT !.prod = "closed", !.seen = TRUE]
    /\ UNCHANGED <<blob, aciinfo, appindex, index, tmp, nextTmp, clock, calls, procs, indexed,
                   raw, got, resolved, keyed, lastInfo>>

NextCancel ==
    \/ StartResolve
    \/ Receive
    \/ Count
    \/ RangeEnds
    \/ ReturnKey
    \/ ProducerCloses
    \/ ProducerCancelled

\* both goroutines are scheduled as long as they can take a step
SpecCancel ==
    /\ InitCancel
    /\ [][NextCancel]_vars
    /\ WF_vars(Receive)
    /\ WF_vars(Count)
    /\ WF_vars(RangeEnds)
    /\ WF_vars(ReturnKey)
    /\ WF_vars(ProducerCloses)
    /\ WF_vars(ProducerCancelled)

----------------------------------------------------------------------------
(* HashToKey on its own: the sums of hashes of several sizes                *)

\* the sizes of the sums HashToKey is handed: none, sha256, one byte short
\* of sha512, sha512, one byte more, twice sha512
SumSizes == {0, lenHash \div 2, lenHash - 1, lenHash, lenHash + 1, 2 * lenHash}

\* a sum of n bytes that agrees with the sha512 of b as far as it goes
SumOfSize(b, n) ==
    IF n <= lenHash THEN SubSeq(Sum(b), 1, n)
    ELSE Sum(b) \o [i \in 1..(n - lenHash) |-> 0]

Sums == {SumOfSize(b, n) : b \in Images \cup SelImages, n \in SumSizes}

InitKey ==
    /\ blob = EmptyStore
    /\ aciinfo = EmptyStore
    /\ appindex = EmptyStore
    /\ index = <<>>
    /\ tmp = EmptyStore
    /\ nextTmp = 0
    /\ clock = 0
    /\ calls = 0
    /\ procs = [p \in Procs |-> IdleProc]
    /\ indexed = {}
    /\ raw = {}
    /\ got = NoGet
    /\ resolved = NoResolve
    /\ \E s \in Sums : keyed = [NoKeyed EXCEPT !.sum = s]
    /\ lastInfo = 0
    /\ iter = NoIter

\* HashToKey(h), cas.go:364-370
Derive ==
    /\ ~keyed.called
    /\ keyed' = [sum    |-> keyed.sum,
                 key    |-> IF HashToKeyPanics(keyed.sum) THEN <<>> ELSE HashToKey(keyed.sum),
                 panic  |-> HashToKeyPanics(keyed.sum),
                 called |-> TRUE]
    /\ UNCHANGED <<blob, aciinfo, appindex, index, tmp, nextTmp, clock, calls, procs, indexed,
                   raw, got, resolved, lastInfo, iter>>

NextKey == Derive

SpecKey == InitKey /\ [][NextKey]_vars

----------------------------------------------------------------------------
(* Vocabulary of the properties *)

Range(f) == {f[x] : x \in DOMAIN f}

\* the ACIInfo records of the store
Infos == {Unmarshal(aciinfo[k]) : k \in DOMAIN aciinfo}

\* the AppIndex records of the store
Apps == {Unmarshal(appindex[k]) : k \in DOMAIN appindex}

\* the manifest carries the pair (name, value) verbatim
Carries(im, l) == \E j \in 1..Len(im.Labels) : im.Labels[j] = l

CarriesAll(im, labels) == \A i \in 1..Len(labels) : Carries(im, labels[i])

\* the appindex keys of the store that belong to a name
KeysOfName(name) == {k \in DOMAIN appindex : HasPrefix(k, ShortSHA512(name))}

\* the ACIInfo records the appindex keys in K lead to
LedTo(K) ==
    {Unmarshal(aciinfo[Unmarshal(appindex[k]).ACIInfoKey]) :
        k \in {x \in K : Unmarshal(appindex[x]).ACIInfoKey \in DOMAIN aciinfo}}

\* the records among those the lookup collected that pass the label filter
Passing == {a \in LedTo(Range(got.cands)) : CarriesAll(a.Im, got.labels)}

\* a lookup was just made / it returned a key
Looked == got.err # "none"
Found == got.err = ""

\* the record of the blob the lookup returned
Returned == Unmarshal(aciinfo[got.key])

\* WriteACI call p has returned a key and no error
Succeeded(p) == procs[p].pc = "done" /\ procs[p].ret.err = ""

\* WriteACI call p was the first call, into the empty store, and has
\* returned a key
Alone(p) == calls = 1 /\ Succeeded(p)

\* the characters of lowercase hex
LowerHex == (48..57) \cup (97..102)

\* a ResolveKey call has returned
Resolved == resolved.err # "none"

\* the stored keys the argument of the call is a prefix of
Matching == {k \in DOMAIN blob : HasPrefix(k, resolved.arg)}

\* the argument of the call cut to the length of a key
Cut == SubSeq(resolved.arg, 1, Min(Len(resolved.arg), lenKey))

WantsVersion == \E i \in 1..Len(got.labels) : got.labels[i].Name = "version"

----------------------------------------------------------------------------
(* WriteACI: temp files, errors, the order of the writes *)

Returned0(p) == procs[p].pc = "done"

\* C1: when WriteACI returns, on whatever path, the temp file the call
\* created is no longer under tmp/.
C1_NoTempFileLeft ==
    \A p \in Procs :
        (Returned0(p) /\ procs[p].fh # 0) => procs[p].fh \notin DOMAIN tmp

\* C3: WriteACI returns a key (and no error) only when both index records
\* of the call have actually been stored; a failed store write surfaces as an
\* error.
C3_KeyOnlyWhenIndexStored ==
    \A p \in Procs :
        (Returned0(p) /\ procs[p].ret.err = "")
            => (procs[p].infoStored /\ procs[p].appStored)

\* C4: under any interleaving of WriteACI calls, every aciinfo record's
\* blobKey names a key present in the blob store.
C4_InfoNamesStoredBlob ==
    \A a \in Infos : a.BlobKey \in DOMAIN blob

\* an aciinfo record is stored while one call has failed at the import and
\* another is between its import and its index writes
C4_Witness ==
    /\ Infos # {}
    /\ \E p \in Procs : Returned0(p) /\ procs[p].ret.err = "error importing image"

\* the aciinfo records whose blobKey is k
InfosOf(k) == {a \in Infos : a.BlobKey = k}

\* the appindex records that point to the aciinfo record of blob key k
PointersTo(k) ==
    {x \in Apps : x.ACIInfoKey = Hash(NewACIInfo(NoIm, k, FALSE, 0))}

C6_BlobHashesToKey ==
    \A k \in DOMAIN blob : HashToKey(Sum(blob[k])) = k

\* C6 amended: the bytes under every blob key that WriteACI admitted (and
\* WriteStream has not overwritten since) hash to that key.
C6_AdmittedHashesToKey ==
    \A k \in (DOMAIN blob) \ raw : HashToKey(Sum(blob[k])) = k

\* a WriteACI call has returned the key of a blob it admitted, while another
\* key holds bytes written through WriteStream
C6_Witness ==
    /\ raw # {}
    /\ \E p \in Procs :
          /\ Returned0(p) /\ procs[p].ret.err = ""
          /\ procs[p].ret.key \in (DOMAIN blob) \ raw

----------------------------------------------------------------------------
(* GetACI *)

\* C2: the candidate keys GetACI collects are exactly the appindex keys
\* that start with the short digest of the name, however many there are.
C2_AllKeysOfNameCollected ==
    Looked => Range(got.cands) = KeysOfName(got.name)

\* C7: no version label requested: the returned record is maximal under
\* (latest, import time), latest first, among the candidates that pass.
C7_LatestThenNewest ==
    (Found /\ ~WantsVersion) =>
        /\ Returned \in Passing
        /\ \A a \in Passing :
              /\ a.Latest => Returned.Latest
              /\ (a.Latest = Returned.Latest) => a.Time <= Returned.Time

\* a latest candidate is returned although a newer one that is not latest passes
C7_Witness ==
    /\ Found /\ ~WantsVersion
    /\ Returned.Latest
    /\ \E a \in Passing : ~a.Latest /\ a.Time > Returned.Time

\* C8: a version label requested: the returned record has the greatest
\* import time among the candidates that pass, whatever their latest flags.
C8_NewestWhenVersionRequested ==
    (Found /\ WantsVersion) =>
        /\ Returned \in Passing
        /\ \A a \in Passing : a.Time <= Returned.Time

\* the newer candidate is returned although an older one is marked latest
C8_Witness ==
    /\ Found /\ WantsVersion
    /\ ~Returned.Latest
    /\ \E a \in Passing : a.Latest /\ a.Time < Returned.Time

\* C9: the manifest in the aciinfo record of the returned blob carries
\* every requested (name, value) pair verbatim.
C9_ReturnedCarriesLabels ==
    Found => (got.key \in DOMAIN aciinfo /\ CarriesAll(Returned.Im, got.labels))

\* a key is returned for a requested label while another image of the name
\* carries that label with a different value
C9_Witness ==
    /\ Found /\ got.labels = <<Label("os", "linux")>>
    /\ \E a \in LedTo(KeysOfName(got.name)) :
          Carries(a.Im, Label("os", "darwin")) /\ ~CarriesAll(a.Im, got.labels)

\* C10: GetACI returns not-found exactly when no appindex entry of the
\* name leads to an aciinfo record carrying all requested labels, and a blob
\* key in every other case.
C10_NotFoundIffNoMatch ==
    Looked =>
        IF \E a \in LedTo(KeysOfName(got.name)) : CarriesAll(a.Im, got.labels)
        THEN Found /\ got.key # <<>>
        ELSE got.err = "aci not found"

----------------------------------------------------------------------------
(* ResolveKey *)

\* C11: a string that is a prefix of exactly one stored key (the bare tag
\* and the empty string included) resolves to that key, without error.
C11_UniquePrefixResolves ==
    Resolved =>
        \A k \in DOMAIN blob :
            Matching = {k} => (resolved.key = k /\ resolved.err = "")

\* the bare tag resolves to the only blob of the store
C11_Witness ==
    /\ Resolved /\ resolved.arg = hashPrefix
    /\ Cardinality(DOMAIN blob) = 1
    /\ resolved.key \in DOMAIN blob

\* C12: a partial key that is a prefix of two or more stored keys gets the
\* ambiguous-key error, which quotes it, and none of the matching keys.
C12_SharedPrefixAmbiguous ==
    (Resolved /\ Cardinality(Matching) >= 2) =>
        /\ resolved.err = "ambiguous key"
        /\ resolved.quoted = resolved.arg
        /\ resolved.key \notin Matching

\* a prefix longer than the tag is shared by two keys while a third is stored
C12_Witness ==
    /\ Resolved /\ Len(resolved.arg) > Len(hashPrefix)
    /\ Cardinality(Matching) = 2
    /\ Cardinality(DOMAIN blob) > 2

C14_FullKeyReturnedUnread ==
    (Resolved /\ Len(Cut) = lenKey /\ HasPrefix(Cut, hashPrefix)) =>
        (resolved.key = Cut /\ resolved.err = "" /\ ~resolved.io)

\* a full key no blob is stored under comes back from a store that holds blobs
C14_Witness ==
    /\ Resolved /\ resolved.arg = AbsentKey
    /\ DOMAIN blob # {} /\ resolved.key \notin DOMAIN blob
    /\ resolved.err = ""

\* C15: an input longer than a key resolves as the input cut to the length
\* of a key does; a full key followed by a suffix resolves to the full key.
C15_LongInputResolvesAsCut ==
    (Resolved /\ Len(resolved.arg) > lenKey) =>
        /\ LET r == ResolveKey(blob, Cut)
           IN  resolved.key = r.key /\ resolved.err = r.err /\ resolved.quoted = r.quoted
        /\ HasPrefix(Cut, hashPrefix) => (resolved.key = Cut /\ resolved.err = "")

\* a stored key followed by a suffix resolves to the key
C15_Witness ==
    /\ Resolved /\ Len(resolved.arg) > lenKey
    /\ resolved.key \in DOMAIN blob
    /\ resolved.arg = resolved.key \o Suffix(Len(resolved.arg) - lenKey)

----------------------------------------------------------------------------
(* WriteACI: keys, round trips, envelopes *)

\* C16: after any sequence of WriteACI calls, the same bytes admitted
\* again with another latest flag or in another envelope included, no two
\* aciinfo records have the same blobKey.
C16_NoTwoInfosShareBlobKey ==
    \A k1 \in DOMAIN aciinfo, k2 \in DOMAIN aciinfo :
        Unmarshal(aciinfo[k1]).BlobKey = Unmarshal(aciinfo[k2]).BlobKey => k1 = k2

\* the same bytes were admitted twice, in different envelopes and with
\* different latest flags, and both aciinfo writes reached the store
C16_Witness ==
    /\ Succeeded(1) /\ Succeeded(2)
    /\ procs[1].ret.key = procs[2].ret.key
    /\ procs[1].typ # procs[2].typ /\ procs[1].latest # procs[2].latest
    /\ procs[1].infoStored /\ procs[2].infoStored
    /\ Cardinality(InfosOf(procs[1].ret.key)) = 1


\* C17: a key HashToKey produces is the tag followed by the first half of
\* the digest in lowercase hex (64 characters), so every key has the length
\* lenKey; HashToKey aborts when the sum is not one of 64 bytes.
C17_KeyIsTagAndHalfDigest ==
    keyed.called =>
        /\ keyed.panic <=> Len(keyed.sum) # 64
        /\ ~keyed.panic =>
              /\ Len(keyed.key) = lenKey
              /\ SubSeq(keyed.key, 1, 7) = hashPrefix
              /\ SubSeq(keyed.key, 8, Len(keyed.key)) = Hex(SubSeq(keyed.sum, 1, 32))
              /\ \A i \in 8..Len(keyed.key) : keyed.key[i] \in LowerHex
              /\ Len(keyed.key) - 7 = 64

\* the key of the digest of an image that is admitted
C17_Witness ==
    /\ keyed.called /\ ~keyed.panic
    /\ keyed.sum = Sum(Image(1)) /\ keyed.key = KeyOf(Image(1))


\* C18 as stated: the key returned for an uncompressed tar admitted into
\* an empty store is the tag followed by the first 128 characters of the hex
\* of its digest.
C18_KeyIsTagAndWholeDigest ==
    \A p \in Procs :
        (Alone(p) /\ procs[p].typ = "tar") =>
            procs[p].ret.key = hashPrefix \o SubSeq(Hex(Sum(procs[p].dr)), 1, 128)

\* C18 amended: the key returned for an uncompressed tar admitted into an
\* empty store is the tag followed by the first 64 characters of the hex of
\* its digest.
C18_KeyIsTagAndHalfOfDigest ==
    \A p \in Procs :
        (Alone(p) /\ procs[p].typ = "tar") =>
            procs[p].ret.key = hashPrefix \o SubSeq(Hex(Sum(procs[p].dr)), 1, 64)

\* the first call, of an uncompressed image, has returned the key its blob
\* is stored under
C18_Witness ==
    \E p \in Procs :
        /\ Alone(p) /\ procs[p].typ = "tar"
        /\ DOMAIN blob = {procs[p].ret.key}
        /\ Len(procs[p].ret.key) = 71

\* C19: after WriteACI of an uncompressed image into an empty store has
\* returned a key, ReadStream of the key yields the input bytes and GetACI of
\* the manifest's name with no labels returns the key.
C19_ReadsBackAndIsFound ==
    \A p \in Procs :
        (Alone(p) /\ procs[p].typ = "tar") =>
            /\ ReadStream(blob, procs[p].ret.key) = [bytes |-> procs[p].dr, err |-> ""]
            /\ LET r == GetACI(index, appindex, aciinfo,
                              ManifestFromImage(procs[p].dr).Name, <<>>)
               IN  r.err = "" /\ r.key = procs[p].ret.key

\* C20: WriteACI of a compressed image returns the key of the
\* uncompressed form, the blob store holds one entry for the image, with the
\* uncompressed bytes, and the latest flag of its aciinfo record is the one
\* the call was given.
C20_EnvelopeSameKeyOneBlobLatestSet ==
    (Succeeded(1) /\ procs[1].typ = "gzip" /\ procs[1].ret.key \notin raw) =>
        /\ procs[1].ret.key = KeyOf(procs[1].dr)
        /\ {k \in DOMAIN blob : blob[k] = procs[1].dr} = {procs[1].ret.key}
        /\ \A a \in InfosOf(procs[1].ret.key) : a.Latest = procs[1].latest
        /\ InfosOf(procs[1].ret.key) # {}

----------------------------------------------------------------------------
(* Re-admission, failures inside WriteACI, concurrent callers *)

\* callers p and q have each made one call, with the same bytes and with
\* latest set, both calls have returned a key, and q's was the later one
Twice(p, q) ==
    /\ p # q /\ calls = 2
    /\ Succeeded(p) /\ Succeeded(q)
    /\ lastInfo = q
    /\ procs[p].typ = procs[q].typ /\ procs[p].dr = procs[q].dr

\* C21: WriteACI of the same image bytes twice with markLatest = true
\* returns the same blob key both times and leaves exactly one blob, one
\* aciinfo record and one appindex record for that image; the import time of
\* the aciinfo record after the second call is not before the time the first
\* call recorded.
C21_TwiceOneOfEachAndLaterTime ==
    \A p, q \in Procs :
        (Twice(p, q) /\ procs[p].latest /\ procs[q].latest) =>
            LET k == procs[q].ret.key
            IN  /\ procs[p].ret.key = k
                /\ DOMAIN blob = {k} /\ blob[k] = procs[q].dr
                /\ Cardinality(InfosOf(k)) = 1
                /\ Cardinality(PointersTo(k)) = 1
                /\ \A a \in InfosOf(k) : a.Time >= procs[p].info.Time

\* C22: after a sequence of successful WriteACI calls for the same image
\* bytes the latest flag and the import time of its aciinfo record are those
\* of the most recently completed admission, whatever the flag was before.
C22_RecordIsOfLastAdmission ==
    \A q \in Procs :
        (Succeeded(q) /\ lastInfo = q) =>
            LET k == procs[q].ret.key
            IN  /\ k \in DOMAIN aciinfo
                /\ Unmarshal(aciinfo[k]).Latest = procs[q].latest
                /\ Unmarshal(aciinfo[k]).Time = procs[q].info.Time

\* the index writes WriteACI gave up on
IndexWriteErrors == {"error writing aciinfo index", "error writing appindex index"}

\* call p has imported its blob and has not yet written its appindex record
BetweenImportAndAppIndex(p) == procs[p].pc \in {"aciinfo", "appindex"}

\* call p has imported its blob and has returned the error of an index write
GaveUpOnIndex(p) == procs[p].pc = "done" /\ procs[p].ret.err \in IndexWriteErrors

\* no call but this one of p can have written an appindex record: it is the
\* only call so far, or the only other one is still on its way
NoOtherIndexed(p) ==
    \/ calls = 1
    \/ calls = 2 /\ \A o \in Procs \ {p} : procs[o].pc \notin {"idle", "done"}

\* C23: a WriteACI call that stops after the blob import and before the
\* appindex write (at a crash between the two, or returning the error of an
\* index write) leaves the blob readable under its key, and GetACI(name, {})
\* answers "aci not found" as long as no other admission has indexed that name.
C23_StoppedCallLeavesUnindexedBlob ==
    \A p \in Procs :
        /\ (BetweenImportAndAppIndex(p) /\ NoOtherIndexed(p)) =>
              /\ ReadStream(blob, procs[p].key) = [bytes |-> procs[p].dr, err |-> ""]
              /\ GetACI(index, appindex, aciinfo, procs[p].im.Name, <<>>).err = "aci not found"
        /\ (GaveUpOnIndex(p) /\ calls = 1) =>
              /\ DOMAIN blob # {}
              /\ \A k \in DOMAIN blob :
                    /\ ReadStream(blob, k).err = "" /\ KeyOf(ReadStream(blob, k).bytes) = k
                    /\ GetACI(index, appindex, aciinfo,
                              ManifestFromImage(blob[k]).Name, <<>>).err = "aci not found"

\* a call has stored its aciinfo record and given up on the appindex write
C23_Witness ==
    \E p \in Procs :
        /\ calls = 1 /\ procs[p].pc = "done"
        /\ procs[p].ret.err = "error writing appindex index"
        /\ DOMAIN blob # {} /\ DOMAIN aciinfo # {}

\* C24: when the manifest cannot be extracted WriteACI returns an error and
\* the blob, aciinfo and appindex stores are as they were before the call
\* (empty, for the first call); bytes without a manifest are never admitted
\* under any key and never get an index record.
C24_NoManifestNothingAdmitted ==
    /\ \A p \in Procs :
          (calls = 1 /\ procs[p].pc = "done"
                     /\ procs[p].ret.err = "error extracting ImageManifest") =>
              blob = EmptyStore /\ aciinfo = EmptyStore /\ appindex = EmptyStore
    /\ \A k \in DOMAIN blob : ManifestOk(blob[k])
    /\ \A p \in Procs :
          procs[p].pc \in {"close", "import", "aciinfo", "appindex"} => ManifestOk(procs[p].dr)
    /\ \A p \in Procs :
          (Succeeded(p) \/ procs[p].pc \in {"aciinfo", "appindex"}) =>
              procs[p].info.Im \in {NoIm} \cup {ManifestFromImage(b) : b \in {x \in Images : ManifestOk(x)}}

\* a second call has failed on the manifest after a first one was admitted
C24_Witness ==
    \E p, q \in Procs :
        /\ procs[p].pc = "done" /\ procs[p].ret.err = "error extracting ImageManifest"
        /\ Succeeded(q) /\ DOMAIN blob = {procs[q].ret.key}

\* the first byte of a stream is one of the known magic numbers
KnownMagic(bs) == bs # <<>> /\ bs[1] \in {TarMagic, GzipMagic}

\* C25: for a stream whose head matches none of the known magic numbers
\* WriteACI returns an error, creates no temp file and leaves the stores
\* unchanged: the call that gave up on the type has no temp file, after it
\* alone everything is still empty, and no byte of such a stream ever reaches
\* a temp file or the blob store.
C25_UnknownTypeTouchesNothing ==
    /\ \A p \in Procs :
          (procs[p].pc = "done" /\ procs[p].ret.err = "error detecting image type") =>
              /\ procs[p].fh = 0
              /\ calls = 1 =>
                    /\ blob = EmptyStore /\ aciinfo = EmptyStore /\ appindex = EmptyStore
                    /\ tmp = EmptyStore /\ nextTmp = 0
    /\ \A f \in DOMAIN tmp : tmp[f] = <<>> \/ KnownMagic(tmp[f])
    /\ \A k \in DOMAIN blob : KnownMagic(blob[k])
    /\ \A p \in Procs : procs[p].fh # 0 => KnownMagic(procs[p].dr) \/ procs[p].pc = "done"

\* a call has given up on a stream of unknown type after another was admitted
C25_Witness ==
    \E p, q \in Procs :
        /\ procs[p].pc = "done" /\ procs[p].ret.err = "error detecting image type"
        /\ procs[p].fh = 0
        /\ Succeeded(q) /\ DOMAIN blob = {procs[q].ret.key} /\ nextTmp = 1

\* callers p and q have each made one call, with the same bytes, in whatever
\* interleaving, and both calls have returned a key
BothOnSameBytes(p, q) ==
    /\ p # q /\ calls = 2
    /\ Succeeded(p) /\ Succeeded(q)
    /\ procs[p].typ = procs[q].typ /\ procs[p].dr = procs[q].dr

\* C26: after two concurrent WriteACI calls on the same image bytes, however
\* interleaved, both have returned the same key, the blob under that key
\* holds exactly those bytes, there is exactly one aciinfo and one appindex
\* record for it, and the aciinfo record is the one of the call that
\* performed its aciinfo write last.
C26_SameBytesLastWriterWins ==
    \A p, q \in Procs :
        BothOnSameBytes(p, q) =>
            LET k == procs[q].ret.key
            IN  /\ procs[p].ret.key = k
                /\ ReadStream(blob, k) = [bytes |-> procs[q].dr, err |-> ""]
                /\ Cardinality(InfosOf(k)) = 1
                /\ Cardinality(PointersTo(k)) = 1
                /\ lastInfo \in {p, q}
                /\ k \in DOMAIN aciinfo
                /\ aciinfo[k] = Marshal(procs[lastInfo].info)

\* the appindex record call x has made
AppIndexOf(x) == NewAppIndex(procs[x].info.Im, Hash(procs[x].info))

\* what call x leaves in the three stores when it runs alone: its bytes under
\* its key, and each index record that its WriteIndex got into the store
BlobAlone(x) == Put(EmptyStore, procs[x].ret.key, procs[x].dr)

InfoAlone(x) ==
    IF procs[x].infoStored THEN WriteIndexPut(EmptyStore, procs[x].info) ELSE EmptyStore

AppAlone(x) ==
    IF procs[x].appStored THEN WriteIndexPut(EmptyStore, AppIndexOf(x)) ELSE EmptyStore

\* store st holds exactly what the stores a and b hold, which share no key
DisjointUnion(st, a, b) ==
    /\ DOMAIN st = DOMAIN a \cup DOMAIN b
    /\ DOMAIN a \cap DOMAIN b = {}
    /\ \A k \in DOMAIN a : st[k] = a[k]
    /\ \A k \in DOMAIN b : st[k] = b[k]

\* C27: after two concurrent WriteACI calls on images with different blob
\* keys, however interleaved and also when the images share a name, the blob,
\* aciinfo and appindex stores hold for each image what its call leaves when
\* it runs alone, and nothing else.
C27_DifferentKeysIndependent ==
    \A p, q \in Procs :
        (p # q /\ calls = 2 /\ Succeeded(p) /\ Succeeded(q)
               /\ procs[p].ret.key # procs[q].ret.key) =>
            /\ DisjointUnion(blob, BlobAlone(p), BlobAlone(q))
            /\ DisjointUnion(aciinfo, InfoAlone(p), InfoAlone(q))
            /\ DisjointUnion(appindex, AppAlone(p), AppAlone(q))

\* two interleaved calls on images of one name have both stored everything
C27_Witness ==
    \E p, q \in Procs :
        /\ p # q /\ calls = 2 /\ Succeeded(p) /\ Succeeded(q)
        /\ procs[p].ret.key # procs[q].ret.key
        /\ procs[p].info.Im.Name = procs[q].info.Im.Name
        /\ procs[p].infoStored /\ procs[q].infoStored
        /\ procs[p].appStored /\ procs[q].appStored
        /\ procs[p].fh < procs[q].fh /\ lastInfo = p

\* C28: across any sequence of WriteACI calls a key that is in the blob
\* store stays in it, with the same bytes, in every later state: no step
\* removes a key or changes the bytes under an existing key, re-admission
\* included.
C28_BlobStoreOnlyGrows ==
    [][\A k \in DOMAIN blob : k \in DOMAIN blob' /\ blob'[k] = blob[k]]_vars

\* two calls have imported the same image, one after the other, into the
\* one blob entry
C28_Witness ==
    \E p \in Procs :
        /\ calls = 2 /\ Succeeded(p)
        /\ Cardinality(DOMAIN blob) = 1
        /\ nextTmp = 2 /\ procs[p].fh = 2 /\ DOMAIN tmp = {}
        /\ \A o \in Procs \ {p} : Succeeded(o) /\ procs[o].ret.key = procs[p].ret.key

\* the decompressed form of every stream of a known type, whole
WholeImages ==
    {decompress(r, DetectFileType(PeekHead(r))) :
        r \in {x \in Streams : DetectFileType(PeekHead(x)) # "unknown"}}

\* C29: a blob becomes visible under its key only after the whole
\* decompressed stream has been copied to the temp file, the manifest has been
\* parsed and the handle closed: up to the import the bytes are under tmp/
\* only, at the import the temp file is whole and has a manifest, and what is
\* under a blob key is never a part of an image.
C29_OnlyWholeImagesVisible ==
    /\ \A k \in DOMAIN blob : blob[k] \in WholeImages
    /\ \A p \in Procs :
          procs[p].pc \in {"copy", "manifest", "close", "import"} =>
              /\ procs[p].fh \in DOMAIN tmp
              /\ calls = 1 => blob = EmptyStore
    /\ \A p \in Procs :
          procs[p].pc = "import" =>
              /\ tmp[procs[p].fh] = procs[p].dr
              /\ procs[p].h = procs[p].dr
              /\ ManifestOk(tmp[procs[p].fh])

\* one call has made its blob visible while the copy of another broke off
\* one byte short
C29_Witness ==
    \E p, q \in Procs :
        /\ procs[p].pc = "aciinfo" /\ blob[procs[p].key] = procs[p].dr
        /\ procs[q].pc = "done" /\ procs[q].ret.err = "error copying image"
        /\ procs[q].fh \in DOMAIN tmp
        /\ tmp[procs[q].fh] = SubSeq(procs[p].dr, 1, Len(procs[p].dr) - 1)

\* the decompressed form of every stream of PeekStreams of a known type
WholePeekImages ==
    {decompress(r, DetectFileType(PeekHead(r))) :
        r \in {x \in PeekStreams : DetectFileType(PeekHead(x)) # "unknown"}}

\* C30: the end of a stream shorter than the peek is not an error: WriteACI
\* gives up on the header only for a read error other than EOF, and then
\* before it has created a temp file; a stream that is admitted, short or
\* long, has lost no byte to the peek, neither in the temp file, nor in the
\* digest behind its key, nor in the blob.
C30_ShortStreamAdmittedWhole ==
    /\ \A p \in Procs :
          (procs[p].pc = "done" /\ procs[p].ret.err = "error reading image header") =>
              procs[p].why = "read error" /\ procs[p].fh = 0
    /\ \A p \in Procs :
          procs[p].pc \in {"tmpFile", "copy", "manifest", "close", "import",
                           "aciinfo", "appindex"} =>
              procs[p].dr \in WholePeekImages
    /\ \A p \in Procs :
          procs[p].pc \in {"close", "import"} => tmp[procs[p].fh] = procs[p].dr
    /\ \A k \in DOMAIN blob : blob[k] \in WholePeekImages /\ k = HashToKey(Sum512(blob[k]))

\* a stream shorter than the peek has been admitted, after a longer one
C30_Witness ==
    /\ Succeeded(1) /\ Len(procs[1].dr) < PeekSize
    /\ procs[1].typ = "gzip"
    /\ blob[procs[1].ret.key] = procs[1].dr
    /\ \E k \in DOMAIN blob : Len(blob[k]) > PeekSize

----------------------------------------------------------------------------
(* Order of the writes, cancellation, the scan, frame conditions *)

\* caller p takes a step
Moves(p) == procs'[p] # procs[p]

C34_NoDanglingAppIndex ==
    \A x \in Apps : x.ACIInfoKey \in DOMAIN aciinfo

\* the aciinfo record the j-th collected appindex key leads to
InfoAt(j) == Unmarshal(aciinfo[Unmarshal(appindex[got.cands[j]]).ACIInfoKey])

\* the j-th collected key leads to a record that passes the label filter
PassesAt(j) ==
    /\ Unmarshal(appindex[got.cands[j]]).ACIInfoKey \in DOMAIN aciinfo
    /\ CarriesAll(InfoAt(j).Im, got.labels)

\* records a and b are tied on the ranking criteria of the lookup made
Tied(a, b) == a.Time = b.Time /\ (WantsVersion \/ a.Latest = b.Latest)

\* C36: of candidates that pass the label filter and are tied on the ranking
\* criteria (latest where it counts, import time) GetACI returns the one
\* enumerated first, which has the smaller appindex key: no candidate before
\* the returned one is tied with it.
C36_FirstOfTiedWins ==
    Found =>
        /\ \A i, j \in 1..Len(got.cands) : i < j => strLess(got.cands[i], got.cands[j])
        /\ \E i \in 1..Len(got.cands) :
              /\ PassesAt(i) /\ InfoAt(i).BlobKey = got.key
              /\ \A j \in 1..(i - 1) : PassesAt(j) => ~Tied(InfoAt(j), InfoAt(i))

\* the first of several tied candidates is returned
C36_Witness ==
    /\ Found /\ Len(got.cands) >= 3
    /\ PassesAt(1) /\ InfoAt(1).BlobKey = got.key
    /\ \E j \in 2..Len(got.cands) : PassesAt(j) /\ Tied(InfoAt(j), InfoAt(1))

BrokenAt(j) ==
    \/ got.cands[j] \notin DOMAIN appindex
    \/ ~Decodable(appindex[got.cands[j]], "appindex")
    \/ ReadIndexErr(aciinfo, Unmarshal(appindex[got.cands[j]]).ACIInfoKey) # ""

\* the errors GetACI returns for an entry, cas.go:283, 289, 296
EntryErrors == {"cannot get AppIndex", "cannot unmarshal AppIndex", "cannot get ACIInfo"}

\* C35: when an appindex entry enumerated for the requested name cannot be
\* read or decoded, or its aciinfo record is missing or cannot be decoded,
\* GetACI returns an error for the whole lookup and no key, also when another
\* entry of the name carries the requested labels; and it returns such an
\* error for no other reason.
C35_BrokenEntryFailsLookup ==
    Looked =>
        /\ (\E j \in 1..Len(got.cands) : BrokenAt(j)) =>
               got.err \in EntryErrors /\ got.key = <<>>
        /\ got.err \in EntryErrors => \E j \in 1..Len(got.cands) : BrokenAt(j)

\* the lookup fails on a broken entry that comes after one that carries the
\* requested labels
C35_Witness ==
    /\ Looked /\ got.err \in EntryErrors /\ got.labels # <<>>
    /\ Len(got.cands) >= 2
    /\ ~BrokenAt(1) /\ PassesAt(1)
    /\ \E j \in 2..Len(got.cands) : BrokenAt(j)

CancelInOrder ==
    /\ iter.cancels <= 1
    /\ iter.keyCount <= 2
    /\ (iter.cancels = 1) <=> (iter.keyCount = 2)
    /\ iter.late = 0
    /\ (iter.pc = "returned" /\ iter.prod # "none") =>
           LET r == ResolveKey(blob, iter.arg)
           IN  resolved = [arg |-> iter.arg, key |-> r.key, err |-> r.err,
                           quoted |-> r.quoted, io |-> r.io]

\* C32: ResolveKey closes the cancel channel exactly when the second matching
\* key has been received and never twice, receives no key after closing it,
\* and with no, one or several matching keys the goroutine of KeysPrefix
\* eventually stops rather than staying blocked on a send.
C32_CancelOnSecondKeyProducerStops ==
    /\ []CancelInOrder
    /\ (iter.prod = "walking") ~> (iter.prod = "closed")

\* a call over three or more matching keys has returned "ambiguous key"; the
\* goroutine found cancel closed and stopped with keys left to hand over
C32_Witness ==
    /\ iter.pc = "returned" /\ iter.err = "ambiguous key"
    /\ iter.cancels = 1 /\ iter.seen
    /\ iter.prod = "closed" /\ iter.todo # <<>>

====
